---- MODULE Spec2Model ----
(***************************************************************************)
(* Model of ansiblelint/rules/fqcn.py: FQCNBuiltinsRule, its class-level   *)
(* resolution cache module_aliases, the matchers matchtask and matchplay,  *)
(* and the fixer transform; and of the configuration singleton of         *)
(* ansiblelint/config.py with the pytest fixtures of                       *)
(* ansiblelint/testing/fixtures.py that hand it to the tests.              *)
(*                                                                         *)
(* Python strings are modelled as sequences of tokens.  A module reference *)
(* such as ansible.builtin.yum is <<"ansible", ".", "builtin", ".", "yum">>*)
(* and the messages of the findings are the token sequences the f-strings  *)
(* build, so that startswith, count, replace and split are computed on     *)
(* them the way the code computes them on characters.                      *)
(***************************************************************************)
EXTENDS Integers, Sequences, FiniteSets, TLC

VARIABLES
    module_aliases,   \* FQCNBuiltinsRule.module_aliases (class attribute, a dict)
    resolved,         \* answers module_loader.find_plugin_with_context has given so far
    calls,            \* per reference: resolver invocations so far
    log,              \* the references _logger.warning was called for
    data,             \* the parsed document: a sequence of task mappings
    matches,          \* the findings collected so far
    ret,              \* the last call: its operation, arguments and return value
    rules,            \* the FQCNBuiltinsRule instances constructed so far
    self,             \* the instance the last method call was made on
    heap,             \* the Options objects: object id -> field values
    globals,          \* what the name "options" is bound to, per module
    frame,            \* the generator frame of fixture_config_options
    up,               \* the other fixtures set up in the current test
    before            \* field values of config.options when the fixture was set up

rule_vars == <<module_aliases, resolved, calls, log, data, matches, ret>>
instance_vars == <<rules, self>>
fixture_vars == <<heap, globals, frame, up, before>>

vars == <<module_aliases, resolved, calls, log, data, matches, ret,
          rules, self, heap, globals, frame, up, before>>

----------------------------------------------------------------------------
(* Bounds of the model.                                                    *)

\* number of tasks of the document
MaxTasks == 1

\* number of FQCNBuiltinsRule instances constructed
MaxRules == 2

\* number of tests that use the config_options fixture
MaxTests == 2

----------------------------------------------------------------------------
(* Python str and list helpers, on token sequences.                        *)

\* None (returned by resolved_fqcn for an unknown module)
None == <<"None">>

\* s.startswith(p)
StartsWith(s, p) ==
    /\ Len(s) >= Len(p)
    /\ SubSeq(s, 1, Len(p)) = p

\* s.count(t) for a one-token t
Count(s, t) == Cardinality({i \in 1..Len(s) : s[i] = t})

\* index of the first occurrence of the token sequence old in s, 0 if none
Find(s, old) ==
    LET hits == {i \in 1..(Len(s) - Len(old) + 1) : SubSeq(s, i, i + Len(old) - 1) = old}
    IN IF hits = {} THEN 0 ELSE CHOOSE i \in hits : \A j \in hits : i <= j

\* s.replace(old, new, 1)
ReplaceFirst(s, old, new) ==
    LET i == Find(s, old)
    IN IF i = 0 THEN s
       ELSE SubSeq(s, 1, i - 1) \o new \o SubSeq(s, i + Len(old), Len(s))

\* s.split(sep) for a one-token sep: the list of the pieces between separators
RECURSIVE Split(_, _)
Split(s, sep) ==
    LET i == Find(s, <<sep>>)
    IN IF i = 0 THEN <<s>>
       ELSE <<SubSeq(s, 1, i - 1)>> \o Split(SubSeq(s, i + 1, Len(s)), sep)

\* the token standing for the backquote character of the messages
Backtick == "BACKQUOTE"

\* s[:-n]
DropLast(s, n) == SubSeq(s, 1, Len(s) - n)

----------------------------------------------------------------------------
(* Module references and documents the model draws its inputs from.        *)

FQ(ns, coll, name) == <<ns, ".", coll, ".", name>>

BlockRef == <<"block/always/rescue">>

\* short names, builtin, legacy and collection spellings
Refs == {
    <<"yum">>,
    FQ("ansible", "builtin", "yum"),
    FQ("ansible", "legacy", "yum"),
    <<"foo">>,
    FQ("community", "general", "foo"),
    FQ("community", "network", "foo") }

Keywords == {<<"name">>, <<"when">>, <<"action">>, <<"block">>}

Entry(k, v) == [k |-> k, v |-> v]

\* - name: n / <module>: args / when: cond
ShortTask(m) ==
    <<Entry(<<"name">>, <<"n">>), Entry(m, <<"args">>), Entry(<<"when">>, <<"cond">>)>>

\* - name: n / action: <module> args
ActionTask(m) ==
    <<Entry(<<"name">>, <<"n">>), Entry(<<"action">>, m \o <<" ", "args">>)>>

\* - name: n / block: [...]
BlockTask == <<Entry(<<"name">>, <<"n">>), Entry(<<"block">>, <<"tasks">>)>>

TaskMaps ==
    {ShortTask(m) : m \in Refs} \cup {ActionTask(m) : m \in Refs} \cup {BlockTask}

\* line of the i-th task of the document
LineOf(i) == 2 * i + 1

Docs ==
    UNION {
        {[i \in 1..n |-> [line |-> LineOf(i), map |-> f[i]]] : f \in [1..n -> TaskMaps]}
        : n \in 1..MaxTasks }

Keys(map) == {map[i].k : i \in 1..Len(map)}

----------------------------------------------------------------------------
(* The rule.                                                               *)

\* module_aliases as the class body sets it
InitialAliases == [m \in {BlockRef} |-> BlockRef]

\* d[k] = v on a dict
Put(d, k, v) == [x \in (DOMAIN d) \cup {k} |-> IF x = k THEN v ELSE d[x]]

\* task["action"]["__ansible_module_original__"]: the module name the task
\* normaliser recorded for the mapping: the first word of an action: value,
\* the block marker for a block, else the one key that is no task keyword
ModuleOriginal(map) ==
    IF <<"action">> \in Keys(map)
    THEN LET i == CHOOSE i \in 1..Len(map) : map[i].k = <<"action">>
         IN Split(map[i].v, " ")[1]
    ELSE IF <<"block">> \in Keys(map)
    THEN BlockRef
    ELSE CHOOSE k \in Keys(map) : k \notin Keywords

\* self.create_matcherror(...): a finding; fixed is False and the path is
\* unset until the runner fills it in
create_matcherror(message, details, lineno, tag) ==
    [tag |-> tag, message |-> message, details |-> details, lineno |-> lineno,
     fixed |-> FALSE, yaml_path |-> <<>>]

BuiltinPrefix == <<"ansible", ".", "builtin">>

\* variant: the replace is left out
LegacyModule_NoReplace(module_alias) == module_alias

\* module_alias.replace("ansible.builtin.", "ansible.legacy.", 1)
LegacyModule(module_alias) ==
    ReplaceFirst(module_alias, <<"ansible", ".", "builtin", ".">>,
                 <<"ansible", ".", "legacy", ".">>)

CoreMessage(module) ==
    <<"Use FQCN for builtin module actions ", "(">> \o module \o <<")", ".">>

CoreDetails(module_alias, legacy_module) ==
    <<"Use ", Backtick>> \o module_alias \o <<Backtick, " or ", Backtick>> \o legacy_module
        \o <<Backtick, " instead.">>

ActionMessage(module_alias) ==
    <<"Use FQCN for module actions, such ", Backtick>> \o module_alias \o <<Backtick, ".">>

ActionDetails(module) ==
    <<"Action ", Backtick>> \o module \o <<Backtick, " is not FQCN.">>

CanonicalMessage(module_alias, module) ==
    <<"You should use canonical module name ", Backtick>> \o module_alias
        \o <<Backtick, " instead of ", Backtick>> \o module \o <<Backtick, ".">>

KeywordMessage ==
    <<"Avoid ", Backtick, "collections", Backtick,
      " keyword by using FQCN for all plugins, modules, roles and playbooks.">>

\* the condition of the elif that guards the fqcn[canonical] finding
CanonicalApplies(module) ==
    \/ ~StartsWith(module, <<"community", ".", "general", ".">>)
    \/ StartsWith(module, <<"community", ".", "network", ".">>)

\* variant: an unresolved module is dropped from the cache again
Lookup_NoCacheOnNone(aliases, module, target) ==
    IF module \notin DOMAIN aliases
    THEN IF target = None
         THEN [aliases |-> aliases, called |-> TRUE, warned |-> TRUE, done |-> TRUE]
         ELSE LET a == Put(aliases, module, target)
              IN [aliases |-> IF target \notin DOMAIN a THEN Put(a, target, target) ELSE a,
                  called |-> TRUE, warned |-> FALSE, done |-> FALSE]
    ELSE [aliases |-> aliases, called |-> FALSE, warned |-> FALSE, done |-> FALSE]

\* variant: the unresolved module keeps None as its alias
Lookup_KeepNone(aliases, module, target) ==
    IF module \notin DOMAIN aliases
    THEN IF target = None
         THEN [aliases |-> Put(aliases, module, target),
               called |-> TRUE, warned |-> TRUE, done |-> TRUE]
         ELSE LET a == Put(aliases, module, target)
              IN [aliases |-> IF target \notin DOMAIN a THEN Put(a, target, target) ELSE a,
                  called |-> TRUE, warned |-> FALSE, done |-> FALSE]
    ELSE [aliases |-> aliases, called |-> FALSE, warned |-> FALSE, done |-> FALSE]

\* variant: the resolved name is cached with the module as its alias
Lookup_TargetAliasedToModule(aliases, module, target) ==
    IF module \notin DOMAIN aliases
    THEN IF target = None
         THEN [aliases |-> Put(Put(aliases, module, target), module, module),
               called |-> TRUE, warned |-> TRUE, done |-> TRUE]
         ELSE LET a == Put(aliases, module, target)
              IN [aliases |-> IF target \notin DOMAIN a THEN Put(a, target, module) ELSE a,
                  called |-> TRUE, warned |-> FALSE, done |-> FALSE]
    ELSE [aliases |-> aliases, called |-> FALSE, warned |-> FALSE, done |-> FALSE]

\* the first half of matchtask: look the module up, resolve it on a miss.
\* target is what find_plugin_with_context(module).resolved_fqcn returns when
\* it is asked.  done: the early return of the unresolved case.
Lookup(aliases, module, target) ==
    IF module \notin DOMAIN aliases
    THEN IF target = None
         THEN [aliases |-> Put(Put(aliases, module, target), module, module),
               called |-> TRUE, warned |-> TRUE, done |-> TRUE]
         ELSE LET a == Put(aliases, module, target)
              IN [aliases |-> IF target \notin DOMAIN a THEN Put(a, target, target) ELSE a,
                  called |-> TRUE, warned |-> FALSE, done |-> FALSE]
    ELSE [aliases |-> aliases, called |-> FALSE, warned |-> FALSE, done |-> FALSE]

\* a comparison that reports every reference to a builtin module that
\* differs from the canonical name, the ansible.legacy one included
Compare_LegacyReported(aliases, module, lineno) ==
    IF module # aliases[module] /\ StartsWith(aliases[module], BuiltinPrefix)
    THEN <<create_matcherror(CoreMessage(module),
                             CoreDetails(aliases[module], LegacyModule(aliases[module])),
                             lineno, "fqcn[action-core]")>>
    ELSE <<>>

\* the second half of matchtask: compare the module with its cached alias
Compare(aliases, module, lineno) ==
    IF module # aliases[module]
    THEN LET module_alias == aliases[module]
             legacy_module == LegacyModule(module_alias)
         IN IF StartsWith(module_alias, BuiltinPrefix)
            THEN IF module # legacy_module
                 THEN <<create_matcherror(CoreMessage(module),
                                          CoreDetails(module_alias, legacy_module),
                                          lineno, "fqcn[action-core]")>>
                 ELSE <<>>
            ELSE IF Count(module, ".") < 2
                 THEN <<create_matcherror(ActionMessage(module_alias),
                                          ActionDetails(module),
                                          lineno, "fqcn[action]")>>
                 ELSE IF CanonicalApplies(module)
                 THEN <<create_matcherror(CanonicalMessage(module_alias, module),
                                          None, lineno, "fqcn[canonical]")>>
                 ELSE <<>>
    ELSE <<>>

\* FQCNBuiltinsRule.matchtask(task): the findings, the cache afterwards, and
\* whether the resolver was called, a warning logged, an exception raised
\* (None has no startswith)
matchtask(aliases, task, target) ==
    LET module == ModuleOriginal(task.map)
        l == Lookup(aliases, module, target)
    IN IF l.done
       THEN [result |-> <<>>, aliases |-> l.aliases, called |-> l.called,
             warned |-> l.warned, raised |-> FALSE]
       ELSE IF l.aliases[module] = None
       THEN [result |-> <<>>, aliases |-> l.aliases, called |-> l.called,
             warned |-> l.warned, raised |-> TRUE]
       ELSE [result |-> Compare(l.aliases, module, task.line), aliases |-> l.aliases,
             called |-> l.called, warned |-> l.warned, raised |-> FALSE]

\* variant: the collections key is not looked at
matchplay_Always(kind, play) ==
    IF kind # "playbook"
    THEN <<>>
    ELSE <<create_matcherror(KeywordMessage, None, play.line, "fqcn[keyword]")>>

\* FQCNBuiltinsRule.matchplay(file, data)
matchplay(kind, play) ==
    IF kind # "playbook"
    THEN <<>>
    ELSE IF <<"collections">> \in Keys(play.map)
    THEN <<create_matcherror(KeywordMessage, None, play.line, "fqcn[keyword]")>>
    ELSE <<>>

FixableTags == {"fqcn[action-core]", "fqcn[action]", "fqcn[canonical]"}

\* self.seek(match.yaml_path, data): the task mapping the path leads to
seek(yaml_path, tree) == tree[yaml_path[1]].map

\* the action name transform recovers from the finding's texts
CurrentAction(match) ==
    IF match.tag = "fqcn[action-core]"
    THEN DropLast(Split(match.message, "(")[2], 2)
    ELSE IF match.tag = "fqcn[action]"
    THEN Split(match.details, Backtick)[2]
    ELSE Split(match.message, Backtick)[4]

\* the replacement name transform recovers from the finding's texts
NewAction(match) ==
    IF match.tag = "fqcn[action-core]"
    THEN Split(match.details, Backtick)[2]
    ELSE Split(match.message, Backtick)[2]

\* target_task[k] = v on an ordered mapping: an existing key keeps its place
SetItem(map, k, v) ==
    IF k \in Keys(map)
    THEN [i \in 1..Len(map) |-> IF map[i].k = k THEN Entry(k, v) ELSE map[i]]
    ELSE Append(map, Entry(k, v))

\* variant: the matched entry is removed and set again at the end, the
\* others are left where they are
Rebuild_NoDrain(map, n, current_action, new_action) ==
    IF current_action \in Keys(map)
    THEN LET i == CHOOSE i \in 1..Len(map) : map[i].k = current_action
         IN SetItem(SubSeq(map, 1, i - 1) \o SubSeq(map, i + 1, Len(map)),
                    new_action, map[i].v)
    ELSE map

\* the loop of transform: n times, pop the first entry and set it again,
\* under the new name when its key is the current action
RECURSIVE Rebuild(_, _, _, _)
Rebuild(map, n, current_action, new_action) ==
    IF n = 0
    THEN map
    ELSE LET e == Head(map)
         IN Rebuild(SetItem(Tail(map),
                            IF e.k = current_action THEN new_action ELSE e.k, e.v),
                    n - 1, current_action, new_action)

\* variant: match.fixed = True is set outside the test of the tag
transform_FixedAlways(match, tree) ==
    IF match.tag \in FixableTags
    THEN LET i == match.yaml_path[1]
             target_task == seek(match.yaml_path, tree)
             rebuilt == Rebuild(target_task, Len(target_task),
                                CurrentAction(match), NewAction(match))
         IN [data |-> [tree EXCEPT ![i].map = rebuilt],
             match |-> [match EXCEPT !.fixed = TRUE]]
    ELSE [data |-> tree, match |-> [match EXCEPT !.fixed = TRUE]]

\* FQCNBuiltinsRule.transform(match, lintable, data): the tree and the
\* finding afterwards
transform(match, tree) ==
    IF match.tag \in FixableTags
    THEN LET i == match.yaml_path[1]
             target_task == seek(match.yaml_path, tree)
             rebuilt == Rebuild(target_task, Len(target_task),
                                CurrentAction(match), NewAction(match))
         IN [data |-> [tree EXCEPT ![i].map = rebuilt],
             match |-> [match EXCEPT !.fixed = TRUE]]
    ELSE [data |-> tree, match |-> match]

----------------------------------------------------------------------------
(* The environment: the module loader and the documents.                   *)

Range(f) == {f[x] : x \in DOMAIN f}

\* module_loader.find_plugin_with_context(module).resolved_fqcn: the
\* answers the loader can give, given the ones it gave before.  The loader
\* is a function of the name.  It answers None, the name it was asked about,
\* or a fully qualified name of the same module in some collection; a name
\* it returns as resolved FQCN is final: asked about it, it answers that
\* name again (or fails to load it).
find_plugin_with_context(env, module) ==
    IF module \in DOMAIN env
    THEN {env[module]}
    ELSE {a \in Refs \cup {None} :
            /\ \/ a \in {None, module}
               \/ Count(a, ".") >= 2 /\ a[Len(a)] = module[Len(module)]
            /\ module \in Range(env) => a \in {module, None}
            /\ (a # None /\ a # module /\ a \in DOMAIN env) => env[a] \in {a, None}}

\* file.kind of the file a top-level mapping comes from
Kinds == {"playbook", "meta"}

\* top-level mappings handed to matchplay, with their line numbers
Plays == {
    [line |-> 1, map |-> <<Entry(<<"hosts">>, <<"all">>), Entry(<<"tasks">>, <<"tasks">>)>>],
    [line |-> 2, map |-> <<Entry(<<"hosts">>, <<"all">>),
                            Entry(<<"collections">>, <<"community.general">>),
                            Entry(<<"tasks">>, <<"tasks">>)>>] }

NoPlay == [line |-> 0, map |-> <<>>]

\* the record of a call: what was called, on what, and what it returned
Call(op, module, path, kind, play, result, called, warned, raised) ==
    [op |-> op, module |-> module, path |-> path, kind |-> kind, play |-> play,
     result |-> result, called |-> called, warned |-> warned, raised |-> raised]

\* the runner records where in the tree the finding's node is
WithPath(result, yaml_path) ==
    [j \in 1..Len(result) |-> [result[j] EXCEPT !.yaml_path = yaml_path]]

\* two findings the runner takes for one: same file and rule, and the same
\* line, tag and message
SameFinding(a, b) == a.lineno = b.lineno /\ a.tag = b.tag /\ a.message = b.message

\* the runner adds the findings of a call to its list; of duplicates it
\* keeps the first seen
RECURSIVE Collect(_, _)
Collect(found_before, found) ==
    IF found = <<>>
    THEN found_before
    ELSE LET f == Head(found)
             dup == \E j \in 1..Len(found_before) : SameFinding(found_before[j], f)
         IN Collect(IF dup THEN found_before ELSE Append(found_before, f), Tail(found))

\* self.module_aliases, read on the instance r: no code assigns the
\* attribute on an instance (lines 116, 119 and 122 store into the dict the
\* lookup returns), so the lookup on any instance finds the class attribute
AliasesOf(r) == module_aliases

\* Options(): the dataclass defaults of the fields the tests touch
Options == [enable_list |-> <<>>, strict |-> FALSE]

\* ids of the rule classes rule_runner is parametrized with
RuleIds == {"fqcn", "name"}

\* a generator frame of fixture_config_options that is not running
NoFrame == [pc |-> "idle", original_options |-> 0, yielded |-> 0]

----------------------------------------------------------------------------
(* The state machine.                                                      *)

\* the modules are imported: config.options is bound to Options(), and
\* "from ansiblelint.config import options" binds the name in fixtures to
\* the same object
InitFixtures ==
    /\ heap = <<Options>>
    /\ globals = [config |-> 1, fixtures |-> 1]
    /\ frame = NoFrame
    /\ up = {}
    /\ before = Options

Init ==
    /\ InitFixtures
    /\ rules = {1}
    /\ self = 1
    /\ module_aliases = InitialAliases
    /\ resolved = [m \in {} |-> None]
    /\ calls = [m \in Refs \cup {BlockRef} |-> 0]
    /\ log = <<>>
    /\ data \in Docs
    /\ matches = <<>>
    /\ ret = Call("none", None, 0, "", NoPlay, <<>>, FALSE, FALSE, FALSE)

\* matchtask is called on the instance r with the i-th task of the
\* document; the loader is asked, and answers, only when the module is not
\* cached
MatchTaskOn(r, i) ==
    LET task == data[i]
        module == ModuleOriginal(task.map)
        answers == IF module \in DOMAIN AliasesOf(r)
                   THEN {None}
                   ELSE find_plugin_with_context(resolved, module)
    IN \E target \in answers :
        LET m == matchtask(AliasesOf(r), task, target)
            found == WithPath(m.result, <<i>>)
        IN /\ module_aliases' = m.aliases
           /\ resolved' = IF m.called THEN Put(resolved, module, target) ELSE resolved
           /\ calls' = IF m.called THEN [calls EXCEPT ![module] = @ + 1] ELSE calls
           /\ log' = IF m.warned THEN Append(log, module) ELSE log
           /\ matches' = Collect(matches, found)
           /\ ret' = Call("matchtask", module, i, "", NoPlay, found,
                          m.called, m.warned, m.raised)
           /\ self' = r
           /\ UNCHANGED <<data, rules>>
           /\ UNCHANGED fixture_vars

\* the runner calls matchtask of its registered rule on the i-th task
MatchTask(i) == MatchTaskOn(self, i)

\* the runner calls rule.matchplay on a top-level mapping of a file
MatchPlay(kind, play) ==
    LET found == WithPath(matchplay(kind, play), <<>>)
    IN /\ matches' = Collect(matches, found)
       /\ ret' = Call("matchplay", None, 0, kind, play, found, FALSE, FALSE, FALSE)
       /\ UNCHANGED <<module_aliases, resolved, calls, log, data>>
       /\ UNCHANGED <<instance_vars, fixture_vars>>

\* the transformer calls rule.transform on the j-th finding
Transform(j) ==
    LET t == transform(matches[j], data)
    IN /\ data' = t.data
       /\ matches' = [matches EXCEPT ![j] = t.match]
       /\ ret' = Call("transform", None, j, "", NoPlay, <<>>, FALSE, FALSE, FALSE)
       /\ UNCHANGED <<module_aliases, resolved, calls, log>>
       /\ UNCHANGED <<instance_vars, fixture_vars>>

Next ==
    \/ \E i \in 1..Len(data) : MatchTask(i)
    \/ \E kind \in Kinds, play \in Plays : MatchPlay(kind, play)
    \/ \E j \in 1..Len(matches) : Transform(j)

Spec == Init /\ [][Next]_vars

\* FQCNBuiltinsRule(): one more instance of the class; the class body is
\* not run again and the constructor touches no class attribute
Construct ==
    /\ Cardinality(rules) < MaxRules
    /\ rules' = rules \cup {Cardinality(rules) + 1}
    /\ self' = Cardinality(rules) + 1
    /\ ret' = Call("construct", None, 0, "", NoPlay, <<>>, FALSE, FALSE, FALSE)
    /\ UNCHANGED <<module_aliases, resolved, calls, log, data, matches>>
    /\ UNCHANGED fixture_vars

\* several rule instances in one process (each test registers its own):
\* any of them is called
NextInstances ==
    \/ Construct
    \/ \E r \in rules : \E i \in 1..Len(data) : MatchTaskOn(r, i)
    \/ \E kind \in Kinds, play \in Plays : MatchPlay(kind, play)
    \/ \E j \in 1..Len(matches) : Transform(j)

SpecInstances == Init /\ [][NextInstances]_vars

\* copy.deepcopy(heap[id]): a new object with equal field values, its
\* lists copied with it
DeepCopy(h, id) == Append(h, h[id])

\* fixture_config_options, up to its yield: "global options" makes the
\* name the one of the fixtures module; the copy is kept in the frame and
\* the object the name is bound to is handed to the test
ConfigOptionsSetup ==
    /\ frame.pc # "yielded"
    /\ Len(heap) <= MaxTests
    /\ heap' = DeepCopy(heap, globals.fixtures)
    /\ frame' = [pc |-> "yielded", original_options |-> Len(heap) + 1,
                 yielded |-> globals.fixtures]
    /\ up' = {}
    /\ before' = heap[globals.config]
    /\ UNCHANGED <<globals, rule_vars, instance_vars>>

\* rule_runner(request, config_options): appends the id of the rule class
\* to the enable_list of the object config_options yielded; the rule
\* instances it constructs keep no state
RuleRunner(id) ==
    /\ frame.pc = "yielded"
    /\ "rule_runner" \notin up
    /\ heap' = [heap EXCEPT ![frame.yielded].enable_list = Append(@, id)]
    /\ up' = up \cup {"rule_runner"}
    /\ UNCHANGED <<globals, frame, before, rule_vars, instance_vars>>

\* fixture_default_rules_collection: assigns a new list to the enable_list
\* of the object the name options of the fixtures module is bound to
DefaultRulesCollection ==
    /\ frame.pc = "yielded"
    /\ "default_rules_collection" \notin up
    /\ heap' = [heap EXCEPT ![globals.fixtures].enable_list = <<"no-same-owner">>]
    /\ up' = up \cup {"default_rules_collection"}
    /\ UNCHANGED <<globals, frame, before, rule_vars, instance_vars>>

\* the body of the test, run while the generator is suspended at its
\* yield: it sets a field of the object it was handed
TestSets(b) ==
    /\ frame.pc = "yielded"
    /\ heap' = [heap EXCEPT ![frame.yielded].strict = b]
    /\ UNCHANGED <<globals, frame, up, before, rule_vars, instance_vars>>

\* fixture_config_options, after its yield: binds the name options of the
\* fixtures module to the copy; the generator ends
ConfigOptionsTeardown ==
    /\ frame.pc = "yielded"
    /\ globals' = [globals EXCEPT !.fixtures = frame.original_options]
    /\ frame' = [NoFrame EXCEPT !.pc = "finished"]
    /\ up' = {}
    /\ UNCHANGED <<heap, before, rule_vars, instance_vars>>

\* tests that use the config_options fixture, one after the other
NextFixtures ==
    \/ ConfigOptionsSetup
    \/ \E id \in RuleIds : RuleRunner(id)
    \/ DefaultRulesCollection
    \/ \E b \in BOOLEAN : TestSets(b)
    \/ ConfigOptionsTeardown

SpecFixtures == Init /\ [][NextFixtures]_vars

----------------------------------------------------------------------------
(* Properties.                                                             *)

CollectionsKey == <<"collections">>

\* the findings of the last call carry one of the tags of the set
LastTags == {ret.result[j].tag : j \in 1..Len(ret.result)}

\* the document's mapping a finding points at, before and after a step
Before(j) == seek(matches[j].yaml_path, data)
After(j) == seek(matches[j].yaml_path, data')

\* the step is transform called on the j-th finding
TransformStep(j) == ret'.op = "transform" /\ ret'.path = j /\ j \in 1..Len(matches)

\* C1: in a run the resolver is asked about a reference at most once,
\* only when the reference is not cached yet and is the module of the task
\* being matched, and an entry of the cache, once made (also one made for an
\* unresolved reference), is never changed or dropped.
C1_ResolvedOncePerRun ==
    [][\A X \in DOMAIN calls :
        /\ calls'[X] <= 1
        /\ calls'[X] # calls[X] =>
               /\ X \notin DOMAIN module_aliases
               /\ ret'.op = "matchtask" /\ ret'.module = X
        /\ X \in DOMAIN module_aliases =>
               /\ X \in DOMAIN module_aliases'
               /\ module_aliases'[X] = module_aliases[X]]_vars

\* a later occurrence of a reference whose first resolution returned None:
\* matched from the cache, the resolver not asked again
C1_Witness ==
    /\ ret.op = "matchtask"
    /\ ~ret.called
    /\ calls[ret.module] = 1
    /\ resolved[ret.module] = None

\* C2: transform leaves fixed false on a finding whose recovered action name
\* is no key of the mapping its path leads to.
C2_FixedOnlyAfterMutation ==
    [][\A j \in 1..Len(matches) :
        (/\ TransformStep(j)
         /\ ~matches[j].fixed
         /\ matches[j].tag \in FixableTags
         /\ CurrentAction(matches[j]) \notin Keys(Before(j)))
        => ~matches'[j].fixed]_vars

\* C3: on a mapping that holds the offending key, transform renames that key
\* to the canonical name the cache holds for it and changes nothing else:
\* same length, every value at its position, every other key as it was.
C3_RenameOnly ==
    [][\A j \in 1..Len(matches) :
        (/\ TransformStep(j)
         /\ matches[j].tag \in FixableTags
         /\ CurrentAction(matches[j]) \in Keys(Before(j)))
        => LET current == CurrentAction(matches[j])
           IN /\ Len(After(j)) = Len(Before(j))
              /\ \A p \in 1..Len(Before(j)) :
                    /\ After(j)[p].v = Before(j)[p].v
                    /\ After(j)[p].k = IF Before(j)[p].k = current
                                       THEN module_aliases[current]
                                       ELSE Before(j)[p].k]_vars

\* transform has renamed the key of a mapping with siblings on both sides
C3_Witness ==
    /\ ret.op = "transform"
    /\ matches[ret.path].fixed
    /\ LET map == seek(matches[ret.path].yaml_path, data)
       IN /\ Len(map) = 3
          /\ map[2].k = NewAction(matches[ret.path])
          /\ map[2].k # CurrentAction(matches[ret.path])

\* C4: matchtask on a task for which a fixable finding has been transformed
\* returns no finding with a fixable tag.
C4_FixIsIdempotent ==
    (/\ ret.op = "matchtask"
     /\ \E j \in 1..Len(matches) :
            /\ matches[j].fixed
            /\ matches[j].tag \in FixableTags
            /\ matches[j].yaml_path = <<ret.path>>)
    => LastTags \cap FixableTags = {}

\* C5: transform on a finding whose tag is not fixable changes neither the
\* document nor any finding.
C5_UndeclaredTagUntouched ==
    [][\A j \in 1..Len(matches) :
        (TransformStep(j) /\ matches[j].tag \notin FixableTags)
        => (data' = data /\ matches' = matches)]_vars

\* transform was called on a fqcn[keyword] finding
C5_Witness ==
    /\ ret.op = "transform"
    /\ matches[ret.path].tag = "fqcn[keyword]"

\* C6: a short module name M the loader resolves to ansible.builtin.M gets
\* exactly one finding, tagged fqcn[action-core], on the task's line, whose
\* details quote ansible.builtin.M and ansible.legacy.M.
C6_ShortBuiltin ==
    (/\ ret.op = "matchtask"
     /\ Len(ret.module) = 1
     /\ ret.module \in DOMAIN resolved
     /\ resolved[ret.module] = FQ("ansible", "builtin", ret.module[1]))
    => /\ Len(ret.result) = 1
       /\ ret.result[1].tag = "fqcn[action-core]"
       /\ ret.result[1].lineno = data[ret.path].line
       /\ Split(ret.result[1].details, Backtick)[2] = FQ("ansible", "builtin", ret.module[1])
       /\ Split(ret.result[1].details, Backtick)[4] = FQ("ansible", "legacy", ret.module[1])

\* matchtask has run on a task whose module is yum, resolved to ansible.builtin.yum
C6_Witness ==
    /\ ret.op = "matchtask"
    /\ ret.module = <<"yum">>
    /\ ret.module \in DOMAIN resolved
    /\ resolved[ret.module] = FQ("ansible", "builtin", "yum")
    /\ Len(ret.result) = 1

\* C7: a reference with two dots or more under community.general. or
\* community.network. never gets a fqcn[canonical] finding.
C7_ExcludedNamespaces ==
    (/\ ret.op = "matchtask"
     /\ Count(ret.module, ".") >= 2
     /\ \/ StartsWith(ret.module, <<"community", ".", "general", ".">>)
        \/ StartsWith(ret.module, <<"community", ".", "network", ".">>))
    => "fqcn[canonical]" \notin LastTags

\* C8: on a play (a top-level mapping of a playbook) matchplay returns one
\* finding, tagged fqcn[keyword] and on the play's line, when the play has a
\* collections key, and none when it has not.
C8_CollectionsKeyword ==
    (ret.op = "matchplay" /\ ret.kind = "playbook")
    => IF CollectionsKey \in Keys(ret.play.map)
       THEN /\ Len(ret.result) = 1
            /\ ret.result[1].tag = "fqcn[keyword]"
            /\ ret.result[1].lineno = ret.play.line
       ELSE ret.result = <<>>

\* matchplay has run on a play with a collections key
C8_Witness ==
    /\ ret.op = "matchplay"
    /\ ret.kind = "playbook"
    /\ CollectionsKey \in Keys(ret.play.map)
    /\ Len(ret.result) = 1

\* C9: when the loader returns None matchtask logs a warning, and for a
\* reference left unresolved in this run matchtask returns no finding, does
\* not raise, and the cache holds the reference as its own alias.
C9_UnresolvedIsCanonical ==
    ret.op = "matchtask" =>
        /\ (ret.called /\ resolved[ret.module] = None) =>
               (ret.warned /\ log # <<>> /\ log[Len(log)] = ret.module)
        /\ ret.module \in Range(log) =>
               /\ ret.result = <<>>
               /\ ~ret.raised
               /\ module_aliases[ret.module] = ret.module

\* a later task with a reference that was left unresolved earlier in the run
C9_Witness ==
    /\ ret.op = "matchtask"
    /\ ~ret.called
    /\ ret.module \in Range(log)

\* the outcome of matchtask for reference X, starting from a given cache
Outcome(aliases, X, target) ==
    LET r == matchtask(aliases, [line |-> LineOf(1), map |-> ShortTask(X)], target)
    IN [result |-> r.result, raised |-> r.raised]

\* C10: for every reference and every answer the loader can give for it,
\* matchtask returns with the cache as it is now what it returns with the
\* cache as the class body sets it.
C10_CacheIndependent ==
    \A X \in Refs \cup {BlockRef} :
        \A target \in find_plugin_with_context(resolved, X) :
            Outcome(module_aliases, X, target) = Outcome(InitialAliases, X, target)

\* the cache holds a reference that got in as the resolved name of another
\* one and was never resolved itself, and a reference with a different alias
C10_Witness ==
    /\ \E X \in DOMAIN module_aliases : X # BlockRef /\ X \notin DOMAIN resolved
    /\ \E X \in DOMAIN module_aliases : module_aliases[X] # X

\* C11: the cache is owned by the instance: a matchtask call on one
\* instance changes the cache no other instance sees, and a newly
\* constructed instance sees a cache holding the initial entry only
C11_CacheOwnedByInstance ==
    [][/\ ret'.op = "matchtask" =>
            \A s \in rules \ {self'} : AliasesOf(s)' = AliasesOf(s)
       /\ ret'.op = "construct" =>
            \A s \in rules' \ rules : AliasesOf(s)' = InitialAliases]_vars

\* C12: once the config_options fixture is torn down, the singleton
\* ansiblelint.config.options has the field values it had before the
\* fixture was set up
C12_ConfigRestored ==
    frame.pc = "finished" => heap[globals.config] = before

\* C13: matchtask returns at most one finding, and none when the module
\* of the task is its canonical name or the ansible.legacy spelling of a
\* canonical name under ansible.builtin
C13_AtMostOneFinding ==
    ret.op = "matchtask" =>
        LET canonical == module_aliases[ret.module]
            name == ret.module[Len(ret.module)]
        IN /\ Len(ret.result) <= 1
           /\ ret.module = canonical => ret.result = <<>>
           /\ ( /\ canonical = FQ("ansible", "builtin", name)
                /\ ret.module = FQ("ansible", "legacy", name) ) => ret.result = <<>>

\* matchtask was called on ansible.legacy.yum, resolved to
\* ansible.builtin.yum, and returned nothing
C13_Witness ==
    /\ ret.op = "matchtask"
    /\ ret.called
    /\ ret.module = FQ("ansible", "legacy", "yum")
    /\ module_aliases[ret.module] = FQ("ansible", "builtin", "yum")
    /\ ret.result = <<>>

====
